---- MODULE Spec2Model ----
(***************************************************************************)
(* PredictIT pipeline session controller: the zustand pipeline store, its  *)
(* local snapshot (localStorage), the wizard components that drive it and  *)
(* the remote operations they await.                                       *)
(*                                                                         *)
(* A JS value that may be null is a sequence of length <= 1: Null is <<>>, *)
(* a present value v is <<v>>.  JS undefined is a value of its own.        *)
(***************************************************************************)
EXTENDS Integers, Sequences, FiniteSets, TLC

(***************************************************************************)
(* Bounds of the model                                                     *)
(***************************************************************************)
MaxUploads == 2      \* upload responses handed out (fresh session ids 1..MaxUploads)
MaxProjects == 1     \* project records the backend holds
MaxClock == 48       \* hours the clock may reach
MaxRuns == 2         \* training runs started since the page was loaded

(***************************************************************************)
(* JS values                                                               *)
(***************************************************************************)
Null == <<>>
Undefined == <<"undefined", "undefined">>
Some(v) == <<v>>
Val(x) == x[1]
\* JS truthiness of a nullable object or non-empty string reference
Truthy(x) == x # Null /\ x # Undefined

(***************************************************************************)
(* Inputs: the files a user uploads and what the upload endpoint infers    *)
(***************************************************************************)
Files == {"a.csv", "b.csv"}

\* DataUploadStep.handleFileUpload: the descriptor built from the response
DatasetInfoOf(file) ==
    IF file = "a.csv"
    THEN [filename |-> file, columns |-> <<"x", "y">>, numericColumns |-> <<"x", "y">>]
    ELSE [filename |-> file, columns |-> <<"x", "z">>, numericColumns |-> <<"x">>]

SeqToSet(s) == {s[i] : i \in 1..Len(s)}

\* PreprocessingStep.scalerOptions: one scaler and 'none' (MinMaxScaler takes the
\* same paths as StandardScaler)
scalerOptions == {"StandardScaler", "none"}
\* TrainTestSplitStep.commonSplits, in percent of the data held out: two of the
\* ratios the buttons and the slider offer
commonSplits == {20, 30}
\* TrainTestSplitStep: useState(splitConfig?.splitRatio || 0.2)
DefaultSplitRatio == 20
\* ModelSelectionStep.modelOptions: one of the model kinds
modelOptions == {"LogisticRegression"}
\* the clock advances in steps of TickHours
TickHours == 24
\* loadFromStorage: 24 * 60 * 60 * 1000 ms, in hours
ExpiryHours == 24
\* loadProject: currentStep: 4
LoadedProjectStep == 4
\* StepBasedPipeline.steps.length
StepsLength == 5

(***************************************************************************)
(* The pipeline store                                                      *)
(***************************************************************************)
initialAnimationState == [currentPhase |-> "idle", progress |-> 0]

initialState ==
    [sessionId |-> Null, isRunning |-> FALSE, results |-> Null, currentStep |-> 1,
     datasetInfo |-> Null, preprocessingConfig |-> Null, splitConfig |-> Null,
     modelConfig |-> Null, fileUrl |-> Null, fileName |-> Null,
     animationState |-> initialAnimationState]

\* the keys of the persisted snapshot that may hold null or undefined
NullableKeys == {"sessionId", "datasetInfo", "preprocessingConfig", "splitConfig",
                 "modelConfig", "results", "fileUrl", "fileName"}

\* JSON.stringify of an object: a key whose value is undefined is left out
JSONstringify(obj) ==
    [k \in {key \in DOMAIN obj : key \in NullableKeys => obj[key] # Undefined} |-> obj[k]]

\* reading a key of a JSON.parse result: a missing key reads as undefined
Field(parsed, key) == IF key \in DOMAIN parsed THEN parsed[key] ELSE Undefined

(***************************************************************************)
(* State                                                                   *)
(***************************************************************************)
VARIABLES
    store,          \* usePipelineStore state
    localStorage,   \* browser localStorage: the keys the program uses
    now,            \* Date.now(), in hours
    cleanup,        \* per session id: state of its /cleanup/session request
    viewMode,       \* App: 'landing' | 'pipeline'
    appPc,          \* App: "init" while the startup timeout is pending, then "ready"
    loading,        \* App.handleLoadPipeline: the project being fetched (isLoadingPipeline)
    uploads,        \* files whose upload request is in flight
    nextSession,    \* upload endpoint: next fresh session id
    projects,       \* backend: the saved project records
    local,          \* useState of the mounted step component
    timer,          \* StepBasedPipeline: the debounced auto-save timeout is pending
    saving,         \* saveProject: the request body of the save in flight
    runs,           \* ResultsStep.runTraining invocations that have not returned
    runCount,       \* runs started since the page was loaded
    savedPipelines, \* ModernSidebar: ids of the projects its list shows
    deleting,       \* ModernSidebar.handleDeletePipeline: ids whose DELETE is in flight
    deleted,        \* backend: ids of the project records that were deleted
    fresh,          \* history: the snapshot slot was not left over by startNewPipeline
    lastOp,         \* history: the store operation the last step performed
    lastLoad        \* history: what the last step's loadFromStorage found

vars == <<store, localStorage, now, cleanup, viewMode, appPc, loading, uploads,
          nextSession, projects, local, timer, saving, runs, runCount,
          savedPipelines, deleting, deleted, fresh, lastOp, lastLoad>>

\* What a synchronous handler can touch.  dirty: one of the four configuration
\* references was replaced (the dependency list of the auto-save effect).
\* dirtyModel: modelConfig was replaced; capped: a bound of the model was hit;
\* load: the outcome of the handler's loadFromStorage call.
World == [store |-> store, ls |-> localStorage, cleanup |-> cleanup,
          local |-> local, runs |-> runs, runCount |-> runCount, timer |-> timer,
          savedPipelines |-> savedPipelines, deleting |-> deleting,
          fresh |-> fresh, dirty |-> FALSE, dirtyModel |-> FALSE, capped |-> FALSE,
          load |-> "none"]

(***************************************************************************)
(* Persistence methods                                                     *)
(***************************************************************************)
\* persistedState with the fileName key forgotten
persistedStateWithoutFileName(state) ==
    [sessionId |-> state.sessionId, currentStep |-> state.currentStep,
     datasetInfo |-> state.datasetInfo,
     preprocessingConfig |-> state.preprocessingConfig,
     splitConfig |-> state.splitConfig, modelConfig |-> state.modelConfig,
     results |-> state.results, fileUrl |-> state.fileUrl,
     fileName |-> Undefined, timestamp |-> now]

persistedState(state) ==
    [sessionId |-> state.sessionId, currentStep |-> state.currentStep,
     datasetInfo |-> state.datasetInfo,
     preprocessingConfig |-> state.preprocessingConfig,
     splitConfig |-> state.splitConfig, modelConfig |-> state.modelConfig,
     results |-> state.results, fileUrl |-> state.fileUrl,
     fileName |-> state.fileName, timestamp |-> now]

saveToStorage(w) ==
    [w EXCEPT !.ls.pipeline = Some(JSONstringify(persistedState(w.store))),
              !.fresh = TRUE]

\* isExpired with a horizon of two days
isExpiredAfterTwoDays(parsedState) == now - parsedState.timestamp > 2 * ExpiryHours

isExpired(parsedState) == now - parsedState.timestamp > ExpiryHours

hasRealProgress(parsedState) ==
    /\ Truthy(Field(parsedState, "datasetInfo"))
    /\ \/ Truthy(Field(parsedState, "preprocessingConfig"))
       \/ Truthy(Field(parsedState, "splitConfig"))
       \/ Truthy(Field(parsedState, "modelConfig"))
       \/ Truthy(Field(parsedState, "results"))

restoredState(state, parsedState) ==
    [state EXCEPT
        !.sessionId = Field(parsedState, "sessionId"),
        !.currentStep = IF parsedState.currentStep # 0 THEN parsedState.currentStep ELSE 1,
        !.datasetInfo = Field(parsedState, "datasetInfo"),
        !.preprocessingConfig = Field(parsedState, "preprocessingConfig"),
        !.splitConfig = Field(parsedState, "splitConfig"),
        !.modelConfig = Field(parsedState, "modelConfig"),
        !.results = Field(parsedState, "results"),
        !.fileUrl = Field(parsedState, "fileUrl"),
        !.fileName = Field(parsedState, "fileName")]

loadFromStorage(w) ==
    IF w.ls.pipeline = Null THEN [w EXCEPT !.load = "empty"]
    ELSE IF isExpired(Val(w.ls.pipeline))
    THEN [w EXCEPT !.ls.pipeline = Null, !.load = "expired"]
    ELSE IF ~hasRealProgress(Val(w.ls.pipeline)) THEN [w EXCEPT !.load = "noProgress"]
    ELSE [w EXCEPT !.store = restoredState(w.store, Val(w.ls.pipeline)),
                   !.dirty = TRUE, !.dirtyModel = TRUE,
                   !.load = IF w.fresh THEN "loaded" ELSE "loadedStale"]

(***************************************************************************)
(* Store actions                                                           *)
(***************************************************************************)
setSessionId(w, sessionId) ==
    saveToStorage([w EXCEPT !.store.sessionId = sessionId])

setIsRunning(w, isRunning) == [w EXCEPT !.store.isRunning = isRunning]

setResults(w, results) ==
    saveToStorage([w EXCEPT !.store.results = results])

setCurrentStep(w, step) ==
    saveToStorage([w EXCEPT !.store.currentStep = step])

setDatasetInfo(w, info) ==
    saveToStorage([w EXCEPT !.store.datasetInfo = info, !.dirty = TRUE])

setPreprocessingConfig(w, config) ==
    saveToStorage([w EXCEPT !.store.preprocessingConfig = config, !.dirty = TRUE])

setSplitConfig(w, config) ==
    saveToStorage([w EXCEPT !.store.splitConfig = config, !.dirty = TRUE])

setModelConfig(w, config) ==
    saveToStorage([w EXCEPT !.store.modelConfig = config, !.dirty = TRUE,
                            !.dirtyModel = TRUE])

setFileInfo(w, url, fileName) ==
    saveToStorage([w EXCEPT !.store.fileUrl = url, !.store.fileName = fileName])

setAnimationState(w, newState) == [w EXCEPT !.store.animationState = newState]

\* a reset that never issues the cleanup fetch
requestCleanupSkipped(w) == w

\* the fetch of /cleanup/session/<id> that resetPipeline and startNewPipeline issue
requestCleanup(w) ==
    IF Truthy(w.store.sessionId)
    THEN [w EXCEPT !.cleanup[Val(w.store.sessionId)] = "pending"]
    ELSE w

\* resetPipeline that keeps the session id
resetPipelineKeepsSession(w) ==
    [requestCleanup(w) EXCEPT !.store = [initialState EXCEPT !.sessionId = w.store.sessionId],
                              !.ls.pipeline = Null,
                              !.dirty = TRUE, !.dirtyModel = TRUE]

resetPipeline(w) ==
    [requestCleanup(w) EXCEPT !.store = initialState, !.ls.pipeline = Null,
                              !.dirty = TRUE, !.dirtyModel = TRUE]

\* startNewPipeline without localStorage.removeItem(STORAGE_KEY)
startNewPipelineKeepsSnapshot(w) ==
    [requestCleanup(w) EXCEPT !.store = initialState,
                              !.dirty = TRUE, !.dirtyModel = TRUE, !.fresh = FALSE]

\* startNewPipeline without the cleanup fetch
startNewPipelineWithoutCleanup(w) ==
    [w EXCEPT !.store = initialState, !.ls.pipeline = Null,
              !.dirty = TRUE, !.dirtyModel = TRUE, !.fresh = FALSE]

startNewPipeline(w) ==
    [requestCleanup(w) EXCEPT !.store = initialState, !.ls.pipeline = Null,
                              !.dirty = TRUE, !.dirtyModel = TRUE, !.fresh = FALSE]

(***************************************************************************)
(* Computed getters                                                        *)
(***************************************************************************)
getCompletedSteps(state) ==
    (IF Truthy(state.datasetInfo) THEN 1 ELSE 0)
    + (IF Truthy(state.preprocessingConfig) THEN 1 ELSE 0)
    + (IF Truthy(state.splitConfig) THEN 1 ELSE 0)
    + (IF Truthy(state.modelConfig) THEN 1 ELSE 0)
    + (IF Truthy(state.results) THEN 1 ELSE 0)

\* canProceedToStep whose case 3 forgets preprocessingConfig
canProceedToStepSkipsPreprocessing(state, step) ==
    CASE step = 1 -> TRUE
      [] step = 2 -> Truthy(state.datasetInfo)
      [] step = 3 -> Truthy(state.datasetInfo)
      [] step = 4 -> /\ Truthy(state.datasetInfo) /\ Truthy(state.preprocessingConfig)
                     /\ Truthy(state.splitConfig)
      [] step = 5 -> /\ Truthy(state.datasetInfo) /\ Truthy(state.preprocessingConfig)
                     /\ Truthy(state.splitConfig) /\ Truthy(state.modelConfig)
      [] OTHER -> FALSE

canProceedToStep(state, step) ==
    CASE step = 1 -> TRUE
      [] step = 2 -> Truthy(state.datasetInfo)
      [] step = 3 -> Truthy(state.datasetInfo) /\ Truthy(state.preprocessingConfig)
      [] step = 4 -> /\ Truthy(state.datasetInfo) /\ Truthy(state.preprocessingConfig)
                     /\ Truthy(state.splitConfig)
      [] step = 5 -> /\ Truthy(state.datasetInfo) /\ Truthy(state.preprocessingConfig)
                     /\ Truthy(state.splitConfig) /\ Truthy(state.modelConfig)
      [] OTHER -> FALSE

(***************************************************************************)
(* Step components: local state and effects                                *)
(***************************************************************************)
NoLocal ==
    [step |-> 0, selectedScaler |-> "", splitRatio |-> 0, selectedModel |-> "",
     targetColumn |-> "", featureColumns |-> <<>>, results |-> Null,
     isTraining |-> FALSE, error |-> FALSE]

\* the useState initialisers of the component rendered for state.currentStep
initLocal(state) ==
    CASE state.currentStep = 2 ->
           [NoLocal EXCEPT !.step = 2,
              !.selectedScaler = IF Truthy(state.preprocessingConfig)
                                 THEN Val(state.preprocessingConfig).scaler ELSE ""]
      [] state.currentStep = 3 ->
           [NoLocal EXCEPT !.step = 3,
              !.splitRatio = IF Truthy(state.splitConfig)
                                /\ Val(state.splitConfig).splitRatio # 0
                             THEN Val(state.splitConfig).splitRatio
                             ELSE DefaultSplitRatio]
      [] state.currentStep = 4 ->
           [NoLocal EXCEPT !.step = 4,
              !.selectedModel = IF Truthy(state.modelConfig)
                                THEN Val(state.modelConfig).modelType ELSE "",
              !.targetColumn = IF Truthy(state.modelConfig)
                               THEN Val(state.modelConfig).targetColumn ELSE "",
              !.featureColumns = IF Truthy(state.modelConfig)
                                 THEN Val(state.modelConfig).featureColumns ELSE <<>>]
      [] OTHER -> [NoLocal EXCEPT !.step = state.currentStep]

\* PreprocessingStep: useEffect on [selectedScaler]
preprocessingEffect(w) ==
    IF w.local.selectedScaler # ""
    THEN setPreprocessingConfig(w, Some([scaler |-> w.local.selectedScaler]))
    ELSE w

\* TrainTestSplitStep: useEffect on [splitRatio]
splitEffect(w) == setSplitConfig(w, Some([splitRatio |-> w.local.splitRatio]))

\* the effect of ModelSelectionStep without the featureColumns.length > 0 test
modelEffectWithoutFeatureCheck(w) ==
    IF w.local.selectedModel # "" /\ w.local.targetColumn # ""
    THEN setModelConfig(w, Some([modelType |-> w.local.selectedModel,
                                 targetColumn |-> w.local.targetColumn,
                                 featureColumns |-> w.local.featureColumns]))
    ELSE w

\* ModelSelectionStep: useEffect on [selectedModel, targetColumn, featureColumns]
modelEffect(w) ==
    IF /\ w.local.selectedModel # "" /\ w.local.targetColumn # ""
       /\ Len(w.local.featureColumns) > 0
    THEN setModelConfig(w, Some([modelType |-> w.local.selectedModel,
                                 targetColumn |-> w.local.targetColumn,
                                 featureColumns |-> w.local.featureColumns]))
    ELSE w

\* modelConfig?.modelType && modelConfig?.targetColumn && modelConfig?.featureColumns?.length
modelConfigComplete(modelConfig) ==
    /\ Truthy(modelConfig)
    /\ Val(modelConfig).modelType # ""
    /\ Val(modelConfig).targetColumn # ""
    /\ Len(Val(modelConfig).featureColumns) > 0

\* the preprocessing condition without the scaler !== 'none' test
needsPreprocessingIgnoresNone(preprocessingConfig) ==
    /\ Truthy(preprocessingConfig)
    /\ Val(preprocessingConfig).scaler # ""

\* preprocessingConfig?.scaler && preprocessingConfig.scaler !== 'none'
needsPreprocessing(preprocessingConfig) ==
    /\ Truthy(preprocessingConfig)
    /\ Val(preprocessingConfig).scaler # ""
    /\ Val(preprocessingConfig).scaler # "none"

\* runTraining that leaves the animation state where the previous run left it
runTrainingKeepsPhase(w) ==
    IF ~Truthy(w.store.sessionId) \/ ~modelConfigComplete(w.store.modelConfig)
    THEN [w EXCEPT !.local.error = TRUE]
    ELSE IF w.runCount >= MaxRuns THEN [w EXCEPT !.capped = TRUE]
    ELSE [w EXCEPT
            !.local.isTraining = TRUE, !.local.error = FALSE, !.local.results = Null,
            !.store.isRunning = TRUE,
            !.runCount = @ + 1,
            !.runs = Append(@, [pc |-> "loading", attached |-> TRUE,
                                sessionId |-> w.store.sessionId,
                                modelConfig |-> w.store.modelConfig,
                                preprocessingConfig |-> w.store.preprocessingConfig,
                                splitConfig |-> w.store.splitConfig,
                                calls |-> <<>>, request |-> Null,
                                response |-> Null])]

\* ResultsStep.runTraining up to its first await; the run keeps the values of
\* the render it was created in
runTraining(w) ==
    IF ~Truthy(w.store.sessionId) \/ ~modelConfigComplete(w.store.modelConfig)
    THEN [w EXCEPT !.local.error = TRUE]
    ELSE IF w.runCount >= MaxRuns THEN [w EXCEPT !.capped = TRUE]
    ELSE [w EXCEPT
            !.local.isTraining = TRUE, !.local.error = FALSE, !.local.results = Null,
            !.store.isRunning = TRUE,
            !.store.animationState = [currentPhase |-> "uploading", progress |-> 10],
            !.runCount = @ + 1,
            !.runs = Append(@, [pc |-> "loading", attached |-> TRUE,
                                sessionId |-> w.store.sessionId,
                                modelConfig |-> w.store.modelConfig,
                                preprocessingConfig |-> w.store.preprocessingConfig,
                                splitConfig |-> w.store.splitConfig,
                                calls |-> <<>>, request |-> Null,
                                response |-> Null])]

\* ResultsStep: useEffect on [sessionId, modelConfig]
resultsEffect(w) ==
    IF /\ ~Truthy(w.local.results) /\ Truthy(w.store.sessionId)
       /\ modelConfigComplete(w.store.modelConfig)
    THEN runTraining(w)
    ELSE w

\* the effects a step component runs when it mounts
mountEffect(w) ==
    CASE w.local.step = 2 -> preprocessingEffect(w)
      [] w.local.step = 3 -> splitEffect(w)
      [] w.local.step = 4 -> modelEffect(w)
      [] w.local.step = 5 -> resultsEffect(w)
      [] OTHER -> w

\* a ResultsStep instance that unmounts no longer receives the setState calls
\* of the runs it started
detachRuns(w) ==
    [w EXCEPT !.runs = [i \in DOMAIN w.runs |-> [w.runs[i] EXCEPT !.attached = FALSE]]]

\* renderStepContent: the component of the current step replaces the mounted one
mountStep(w) == mountEffect([detachRuns(w) EXCEPT !.local = initLocal(w.store)])

anyConfig(state) ==
    \/ Truthy(state.datasetInfo) \/ Truthy(state.preprocessingConfig)
    \/ Truthy(state.splitConfig) \/ Truthy(state.modelConfig)

\* StepBasedPipeline: the load-on-mount effect, with the values of the first render
loadOnMount(rendered, w) ==
    IF ~anyConfig(rendered) THEN loadFromStorage(w) ELSE w

\* StepBasedPipeline mounts: first render, child effects, then its own effects,
\* then the render that a restored currentStep causes
mountPipeline(w) ==
    LET w1 == mountStep(w)
        w2 == loadOnMount(w.store, w1)
        w3 == IF w2.store.currentStep # w2.local.step THEN mountStep(w2) ELSE w2
    IN [w3 EXCEPT !.timer = anyConfig(w3.store)]

\* ModernSidebar is rendered with StepBasedPipeline: unmounted, its list is gone
\* and the responses of its requests no longer reach a component
unmountSidebar(w) == [w EXCEPT !.savedPipelines = {}, !.deleting = {}]

unmountPipeline(w) ==
    unmountSidebar([detachRuns(w) EXCEPT !.local = NoLocal, !.timer = FALSE])

\* StepBasedPipeline is rendered by App
pipelineMounted(app, view, load) == app = "ready" /\ view = "pipeline" /\ load = Null

\* rerender whose auto-save effect leaves a pending timeout alone when no
\* configuration is left
rerenderKeepsTimer(w0, w) ==
    LET w1 == IF w.store.currentStep # w.local.step THEN mountStep(w)
              ELSE IF /\ w.local.step = 5
                      /\ (w.dirtyModel \/ w.store.sessionId # w0.store.sessionId)
                   THEN resultsEffect(w)
                   ELSE w
    IN [w1 EXCEPT !.timer = IF w1.dirty /\ anyConfig(w1.store) THEN TRUE ELSE w1.timer]

\* React after a handler ran while StepBasedPipeline stays mounted: the step
\* component is replaced when currentStep changed, ResultsStep re-runs its
\* effect when sessionId or modelConfig changed, the auto-save effect re-arms
rerender(w0, w) ==
    LET w1 == IF w.store.currentStep # w.local.step THEN mountStep(w)
              ELSE IF /\ w.local.step = 5
                      /\ (w.dirtyModel \/ w.store.sessionId # w0.store.sessionId)
                   THEN resultsEffect(w)
                   ELSE w
    IN [w1 EXCEPT !.timer = IF w1.dirty THEN anyConfig(w1.store) ELSE w1.timer]

\* what React does once a handler has returned
settle(w, mountedBefore, mountedAfter) ==
    IF ~mountedAfter THEN unmountPipeline(w)
    ELSE IF ~mountedBefore THEN mountPipeline(w)
    ELSE rerender(World, w)

(***************************************************************************)
(* Initial state: first visit, module initialisation has run               *)
(***************************************************************************)
SessionIds == 1..MaxUploads

Init ==
    /\ store = initialState
    /\ localStorage = [pipeline |-> Null, auth_token |-> Null, viewMode |-> Null]
    /\ now = 0
    /\ cleanup = [sid \in SessionIds |-> "none"]
    /\ viewMode = "landing"
    /\ appPc = "init"
    /\ loading = Null
    /\ uploads = {}
    /\ nextSession = 1
    /\ projects = <<>>
    /\ local = NoLocal
    /\ timer = FALSE
    /\ saving = Null
    /\ runs = <<>>
    /\ runCount = 0
    /\ savedPipelines = {}
    /\ deleting = {}
    /\ deleted = {}
    /\ fresh = TRUE
    /\ lastOp = "init"
    /\ lastLoad = "empty"

Mounted == pipelineMounted(appPc, viewMode, loading)

\* StepBasedPipeline: {isRunning && <AnimatedPipelineFlow />}, a fixed inset-0 z-50
\* layer over the wizard and the sidebar (z-40): while it is rendered no control
\* of the pipeline view receives a click; SaveProjectDialog is such a layer too,
\* and its own buttons are disabled while the save request is in flight
Interactive == Mounted /\ ~store.isRunning /\ saving = Null

isAuthenticated == Truthy(localStorage.auth_token)

\* the handler's world becomes the next state
Commit(w) ==
    /\ ~w.capped
    /\ store' = w.store
    /\ localStorage' = w.ls
    /\ cleanup' = w.cleanup
    /\ local' = w.local
    /\ runs' = w.runs
    /\ runCount' = w.runCount
    /\ timer' = w.timer
    /\ savedPipelines' = w.savedPipelines
    /\ deleting' = w.deleting
    /\ fresh' = w.fresh
    /\ lastLoad' = w.load

\* App: the effect that keeps 'ml-pipeline-view-mode' equal to viewMode
saveViewMode(w, view) == [w EXCEPT !.ls.viewMode = Some(view)]

(***************************************************************************)
(* Page and App                                                            *)
(***************************************************************************)
\* the module-level statements of pipelineStore on a page load
moduleInit(w) == loadFromStorage([w EXCEPT !.store = initialState])

Reload ==
    /\ Commit(unmountSidebar([moduleInit(World) EXCEPT !.local = NoLocal, !.timer = FALSE,
                                                       !.runs = <<>>, !.runCount = 0]))
    /\ viewMode' = "landing"
    /\ appPc' = "init"
    /\ loading' = Null
    /\ uploads' = {}
    /\ saving' = Null
    /\ lastOp' = "reload"
    /\ UNCHANGED <<deleted, now, nextSession, projects>>

\* App: the startup timeout
AppStart ==
    /\ appPc = "init"
    /\ LET resume == localStorage.viewMode = Some("pipeline") /\ isAuthenticated
           view == IF resume THEN "pipeline" ELSE "landing"
           w == IF resume THEN loadFromStorage(World) ELSE World
       IN /\ viewMode' = view
          /\ Commit(settle(saveViewMode(w, view), FALSE,
                           pipelineMounted("ready", view, loading)))
    /\ appPc' = "ready"
    /\ lastOp' = "other"
    /\ UNCHANGED <<deleted, now, loading, uploads, nextSession, projects, saving>>

\* time passes; the 100 ms startup timeout of App has fired long before
Tick ==
    /\ appPc = "ready"
    /\ now + TickHours <= MaxClock
    /\ now' = now + TickHours
    /\ lastOp' = "other"
    /\ UNCHANGED <<deleted, savedPipelines, deleting, store, localStorage, cleanup,
                   viewMode, appPc, loading, uploads,
                   nextSession, projects, local, timer, saving, runs, runCount, fresh>>
    /\ lastLoad' = "none"

\* App.handleGetStarted: every 'Get Started' / 'Resume' / 'Continue Building' button
handleGetStarted ==
    /\ appPc = "ready" /\ viewMode = "landing"
    /\ viewMode' = "pipeline"
    /\ Commit(settle(saveViewMode(startNewPipeline(World), "pipeline"), Mounted,
                     pipelineMounted(appPc, "pipeline", loading)))
    /\ lastOp' = "startNewPipeline"
    /\ UNCHANGED <<deleted, now, appPc, loading, uploads, nextSession, projects, saving>>

handleBackToHome ==
    /\ Interactive
    /\ viewMode' = "landing"
    /\ Commit(settle(saveViewMode(World, "landing"), Mounted, FALSE))
    /\ lastOp' = "other"
    /\ UNCHANGED <<deleted, now, appPc, loading, uploads, nextSession, projects, saving>>

\* ModernSidebar.handleNewPipeline, then App's onNewPipeline
handleNewPipeline ==
    /\ Interactive
    /\ Commit(settle(startNewPipeline(resetPipeline(World)), Mounted, Mounted))
    /\ lastOp' = "startNewPipeline"
    /\ UNCHANGED <<deleted, now, viewMode, appPc, loading, uploads, nextSession,
                   projects, saving>>

\* StepBasedPipeline.handleReset, confirmed
handleReset ==
    /\ Interactive
    /\ Commit(settle(resetPipeline(World), Mounted, Mounted))
    /\ lastOp' = "resetPipeline"
    /\ UNCHANGED <<deleted, now, viewMode, appPc, loading, uploads, nextSession,
                   projects, saving>>

\* fetch(...).catch(error => console.warn(...)) of the cleanup request: whether it
\* resolves or rejects, no statement of the program touches the store
CleanupSettles ==
    /\ \E sid \in SessionIds, outcome \in {"ok", "failed"} :
          /\ cleanup[sid] = "pending"
          /\ cleanup' = [cleanup EXCEPT ![sid] = outcome]
    /\ UNCHANGED <<deleted, savedPipelines, deleting, store, localStorage, now,
                   viewMode, appPc, loading, uploads,
                   nextSession, projects, local, timer, saving, runs, runCount, fresh,
                   lastOp, lastLoad>>

\* StepBasedPipeline: the debounced auto-save timeout fires
AutoSave ==
    /\ Mounted /\ timer
    /\ Commit([saveToStorage(World) EXCEPT !.timer = FALSE])
    /\ lastOp' = "autoSave"
    /\ UNCHANGED <<deleted, now, viewMode, appPc, loading, uploads, nextSession,
                   projects, saving>>

(***************************************************************************)
(* Navigation                                                              *)
(***************************************************************************)
\* the 'next' button of the mounted step component is enabled
nextEnabled ==
    CASE local.step = 1 -> Truthy(store.datasetInfo)
      [] local.step = 2 -> local.selectedScaler # ""
      [] local.step = 3 -> TRUE
      [] local.step = 4 -> /\ local.selectedModel # "" /\ local.targetColumn # ""
                           /\ Len(local.featureColumns) > 0
      [] OTHER -> FALSE

handleNext ==
    /\ Interactive /\ nextEnabled
    /\ store.currentStep + 1 <= StepsLength
    /\ canProceedToStep(store, store.currentStep + 1)
    /\ Commit(settle(setCurrentStep(World, store.currentStep + 1), Mounted, Mounted))
    /\ lastOp' = "other"
    /\ UNCHANGED <<deleted, now, viewMode, appPc, loading, uploads, nextSession,
                   projects, saving>>

handlePrevious ==
    /\ Interactive /\ local.step >= 2
    /\ store.currentStep > 1
    /\ Commit(settle(setCurrentStep(World, store.currentStep - 1), Mounted, Mounted))
    /\ lastOp' = "other"
    /\ UNCHANGED <<deleted, now, viewMode, appPc, loading, uploads, nextSession,
                   projects, saving>>

handleStepClick ==
    /\ Interactive
    /\ \E stepId \in 1..StepsLength :
          /\ canProceedToStep(store, stepId)
          /\ Commit(settle(setCurrentStep(World, stepId), Mounted, Mounted))
    /\ lastOp' = "other"
    /\ UNCHANGED <<deleted, now, viewMode, appPc, loading, uploads, nextSession,
                   projects, saving>>

(***************************************************************************)
(* Step 1: upload                                                          *)
(***************************************************************************)
\* DataUploadStep.handleFileUpload up to 'await uploadFile(file)'; the drop zone
\* is rendered while the store has no datasetInfo
handleFileUpload ==
    /\ Interactive /\ local.step = 1 /\ ~Truthy(store.datasetInfo)
    /\ nextSession + Cardinality(uploads) <= MaxUploads
    /\ \E file \in Files \ uploads : uploads' = uploads \cup {file}
    /\ lastOp' = "other"
    /\ UNCHANGED <<deleted, savedPipelines, deleting, store, localStorage, now, cleanup,
                   viewMode, appPc, loading,
                   nextSession, projects, local, timer, saving, runs, runCount, fresh>>
    /\ lastLoad' = "none"

\* the three store calls after 'await uploadFile(file)'
uploadResolved(w, sessionId, file) ==
    setDatasetInfo(setFileInfo(setSessionId(w, Some(sessionId)), Null, Some(file)),
                   Some(DatasetInfoOf(file)))

UploadOk ==
    /\ \E file \in uploads :
          /\ uploads' = uploads \ {file}
          /\ Commit(settle(uploadResolved(World, nextSession, file), Mounted, Mounted))
    /\ nextSession' = nextSession + 1
    /\ lastOp' = "setDatasetInfo"
    /\ UNCHANGED <<deleted, now, viewMode, appPc, loading, projects, saving>>

\* the catch branch: only the component's uploadError changes
UploadFails ==
    /\ \E file \in uploads : uploads' = uploads \ {file}
    /\ lastOp' = "other"
    /\ UNCHANGED <<deleted, savedPipelines, deleting, store, localStorage, now, cleanup,
                   viewMode, appPc, loading,
                   nextSession, projects, local, timer, saving, runs, runCount, fresh>>
    /\ lastLoad' = "none"

(***************************************************************************)
(* Steps 2-4: the configuration forms                                      *)
(***************************************************************************)
\* PreprocessingStep: setSelectedScaler, then the effect
selectScaler ==
    /\ Interactive /\ local.step = 2
    /\ \E scaler \in scalerOptions \ {local.selectedScaler} :
          Commit(settle(preprocessingEffect([World EXCEPT !.local.selectedScaler = scaler]),
                        Mounted, Mounted))
    /\ lastOp' = "other"
    /\ UNCHANGED <<deleted, now, viewMode, appPc, loading, uploads, nextSession,
                   projects, saving>>

\* TrainTestSplitStep: setSplitRatio, then the effect
selectSplitRatio ==
    /\ Interactive /\ local.step = 3
    /\ \E ratio \in commonSplits \ {local.splitRatio} :
          Commit(settle(splitEffect([World EXCEPT !.local.splitRatio = ratio]),
                        Mounted, Mounted))
    /\ lastOp' = "other"
    /\ UNCHANGED <<deleted, now, viewMode, appPc, loading, uploads, nextSession,
                   projects, saving>>

\* ModelSelectionStep: datasetInfo?.columns || [] and datasetInfo?.numericColumns || []
datasetColumns == IF Truthy(store.datasetInfo) THEN Val(store.datasetInfo).columns ELSE <<>>
numericColumns ==
    IF Truthy(store.datasetInfo) THEN Val(store.datasetInfo).numericColumns ELSE <<>>
availableFeatures == SeqToSet(numericColumns) \ {local.targetColumn}

\* ModelSelectionStep: setSelectedModel, then the effect
selectModel ==
    /\ Interactive /\ local.step = 4
    /\ \E model \in modelOptions \ {local.selectedModel} :
          Commit(settle(modelEffect([World EXCEPT !.local.selectedModel = model]),
                        Mounted, Mounted))
    /\ lastOp' = "other"
    /\ UNCHANGED <<deleted, now, viewMode, appPc, loading, uploads, nextSession,
                   projects, saving>>

\* ModelSelectionStep: the target <select>, rendered once a model is selected
selectTarget ==
    /\ Interactive /\ local.step = 4 /\ local.selectedModel # ""
    /\ \E target \in (SeqToSet(datasetColumns) \cup {""}) \ {local.targetColumn} :
          Commit(settle(modelEffect([World EXCEPT !.local.targetColumn = target,
                                                  !.local.featureColumns = <<>>]),
                        Mounted, Mounted))
    /\ lastOp' = "other"
    /\ UNCHANGED <<deleted, now, viewMode, appPc, loading, uploads, nextSession,
                   projects, saving>>

\* prev.includes(column) ? prev.filter(f => f !== column) : [...prev, column]
toggled(prev, column) ==
    IF column \in SeqToSet(prev) THEN SelectSeq(prev, LAMBDA f : f # column)
    ELSE Append(prev, column)

\* ModelSelectionStep.handleFeatureToggle, then the effect
handleFeatureToggle ==
    /\ Interactive /\ local.step = 4 /\ local.targetColumn # ""
    /\ \E column \in availableFeatures :
          Commit(settle(modelEffect([World EXCEPT
                            !.local.featureColumns = toggled(@, column)]),
                        Mounted, Mounted))
    /\ lastOp' = "other"
    /\ UNCHANGED <<deleted, now, viewMode, appPc, loading, uploads, nextSession,
                   projects, saving>>

(***************************************************************************)
(* Authentication (authStore), as far as the pipeline consumes it          *)
(***************************************************************************)
hasProgress == store.currentStep > 1 \/ Truthy(store.datasetInfo)

\* authStore.login / register succeed; AuthModal.onSuccess
Login ==
    /\ appPc = "ready" /\ loading = Null /\ ~isAuthenticated
    /\ viewMode = "landing" \/ ~store.isRunning
    /\ LET view == IF viewMode = "landing" /\ hasProgress THEN "pipeline" ELSE viewMode
           w == [World EXCEPT !.ls.auth_token = Some("token")]
       IN /\ viewMode' = view
          /\ Commit(settle(IF view # viewMode THEN saveViewMode(w, view) ELSE w,
                           Mounted, pipelineMounted(appPc, view, loading)))
    /\ lastOp' = "login"
    /\ UNCHANGED <<deleted, now, appPc, loading, uploads, nextSession, projects, saving>>

\* authStore.logout, from the sidebar
logout ==
    /\ Interactive /\ isAuthenticated
    /\ Commit(settle([World EXCEPT !.ls.auth_token = Null, !.ls.viewMode = Null],
                     Mounted, Mounted))
    /\ lastOp' = "logout"
    /\ UNCHANGED <<deleted, now, viewMode, appPc, loading, uploads, nextSession,
                   projects, saving>>

(***************************************************************************)
(* Projects                                                                *)
(***************************************************************************)
\* saveProject: the body of POST /projects/save
saveRequest(state) ==
    [session_id |-> state.sessionId, dataset_info |-> state.datasetInfo,
     preprocessing_config |-> state.preprocessingConfig,
     split_config |-> state.splitConfig, model_config |-> state.modelConfig,
     results |-> state.results]

\* what the user may have typed into the name field of SaveProjectDialog
ProjectNames == {"", " ", "p"}

\* name.trim()
trim(name) == IF name = " " THEN "" ELSE name

\* saveProject that does not look for the auth token
saveProjectFetchWithoutToken(w, name) == Some(saveRequest(w.store))

\* saveProject up to 'await fetch': the request it issues, Null when it returns
\* before the fetch
saveProjectFetch(w, name) ==
    IF ~Truthy(w.ls.auth_token) THEN Null ELSE Some(saveRequest(w.store))

\* SaveProjectDialog.handleSave up to 'await saveProject(...)'
handleSave(w, name) ==
    IF trim(name) = "" THEN Null ELSE saveProjectFetch(w, trim(name))

\* loadProject up to 'await fetch': the project it requests, Null when it
\* returns false before the fetch
loadProjectFetch(w, projectId) ==
    IF ~Truthy(w.ls.auth_token) THEN Null ELSE Some(projectId)

\* the 'Save Project' button of the dialog, enabled while name.trim() is not empty
saveProject ==
    /\ Interactive /\ isAuthenticated /\ getCompletedSteps(store) > 0
    /\ saving = Null /\ Len(projects) < MaxProjects
    /\ \E name \in {n \in ProjectNames : trim(n) # ""} : saving' = handleSave(World, name)
    /\ lastOp' = "other"
    /\ UNCHANGED <<deleted, savedPipelines, deleting, store, localStorage, now, cleanup,
                   viewMode, appPc, loading, uploads,
                   nextSession, projects, local, timer, runs, runCount, fresh>>
    /\ lastLoad' = "none"

\* backend: the record POST /projects/save stores and GET /projects/<id> returns
projectRecord(body, url) ==
    [session_id |-> body.session_id, dataset_info |-> body.dataset_info,
     preprocessing_config |-> body.preprocessing_config,
     split_config |-> body.split_config, model_config |-> body.model_config,
     results |-> body.results, file_url |-> url]

\* saveProject after a 2xx response
saveResolved(w, cloudinary_url) ==
    IF Truthy(cloudinary_url)
    THEN saveToStorage([w EXCEPT !.store.fileUrl = cloudinary_url])
    ELSE w

SaveProjectOk ==
    /\ saving # Null
    /\ \E cloudinary_url \in {Null, Some("cloudinary")} :
          /\ projects' = Append(projects, projectRecord(Val(saving), cloudinary_url))
          /\ Commit(settle(saveResolved(World, cloudinary_url), Mounted, Mounted))
    /\ saving' = Null
    /\ lastOp' = "other"
    /\ UNCHANGED <<deleted, now, viewMode, appPc, loading, uploads, nextSession>>

SaveProjectFails ==
    /\ saving # Null
    /\ saving' = Null
    /\ lastOp' = "other"
    /\ UNCHANGED <<deleted, savedPipelines, deleting, store, localStorage, now, cleanup,
                   viewMode, appPc, loading, uploads,
                   nextSession, projects, local, timer, runs, runCount, fresh>>
    /\ lastLoad' = "none"

\* App.handleLoadPipeline up to 'await loadProject', loadProject up to 'await fetch'
handleLoadPipeline ==
    /\ Interactive /\ isAuthenticated
    /\ \E projectId \in savedPipelines :
          /\ loading' = loadProjectFetch(World, projectId)
          /\ Commit(settle(World, Mounted, FALSE))
    /\ lastOp' = "other"
    /\ UNCHANGED <<deleted, now, viewMode, appPc, uploads, nextSession, projects, saving>>

\* loadProject that leaves currentStep where the wizard was
loadProjectKeepsStep(w, project) ==
    saveToStorage([w EXCEPT
        !.store.sessionId = project.session_id,
        !.store.datasetInfo = project.dataset_info,
        !.store.preprocessingConfig = project.preprocessing_config,
        !.store.splitConfig = project.split_config,
        !.store.modelConfig = project.model_config,
        !.store.results = project.results,
        !.store.fileUrl = project.file_url,
        !.store.fileName = IF Truthy(project.dataset_info)
                           THEN Some(Val(project.dataset_info).filename)
                           ELSE Undefined,
        !.dirty = TRUE, !.dirtyModel = TRUE])

\* loadProject after a 2xx response
loadProject(w, project) ==
    saveToStorage([w EXCEPT
        !.store.sessionId = project.session_id,
        !.store.datasetInfo = project.dataset_info,
        !.store.preprocessingConfig = project.preprocessing_config,
        !.store.splitConfig = project.split_config,
        !.store.modelConfig = project.model_config,
        !.store.results = project.results,
        !.store.fileUrl = project.file_url,
        !.store.fileName = IF Truthy(project.dataset_info)
                           THEN Some(Val(project.dataset_info).filename)
                           ELSE Undefined,
        !.store.currentStep = LoadedProjectStep,
        !.dirty = TRUE, !.dirtyModel = TRUE])

\* loadProject returns true; App shows the pipeline again
LoadProjectOk ==
    /\ loading # Null /\ Val(loading) \notin deleted
    /\ viewMode' = "pipeline"
    /\ loading' = Null
    /\ Commit(settle(saveViewMode(loadProject(World, projects[Val(loading)]), "pipeline"),
                     Mounted, pipelineMounted(appPc, "pipeline", Null)))
    /\ lastOp' = "loadProject"
    /\ UNCHANGED <<deleted, now, appPc, uploads, nextSession, projects, saving>>

\* loadProject returns false
LoadProjectFails ==
    /\ loading # Null
    /\ loading' = Null
    /\ Commit(settle(World, Mounted, pipelineMounted(appPc, viewMode, Null)))
    /\ lastOp' = "other"
    /\ UNCHANGED <<deleted, now, viewMode, appPc, uploads, nextSession, projects, saving>>

(***************************************************************************)
(* The project list of the sidebar                                         *)
(***************************************************************************)
\* ModernSidebar.loadSavedPipelines: the response of GET /projects arrives; the
\* effect on [isAuthenticated, token] and refreshProjects issue the request
loadSavedPipelines ==
    /\ Mounted /\ isAuthenticated
    /\ savedPipelines # DOMAIN projects \ deleted
    /\ savedPipelines' = DOMAIN projects \ deleted
    /\ lastOp' = "other"
    /\ UNCHANGED <<deleted, deleting, store, localStorage, now, cleanup, viewMode, appPc,
                   loading, uploads, nextSession, projects, local, timer, saving, runs,
                   runCount, fresh>>
    /\ lastLoad' = "none"

\* ModernSidebar.handleDeletePipeline, confirmed, up to 'await fetch'; a request
\* whose sidebar has been unmounted is not followed further
handleDeletePipeline ==
    /\ Interactive /\ isAuthenticated
    /\ \E pipelineId \in savedPipelines \ deleting : deleting' = deleting \cup {pipelineId}
    /\ lastOp' = "other"
    /\ UNCHANGED <<deleted, savedPipelines, store, localStorage, now, cleanup, viewMode,
                   appPc, loading, uploads, nextSession, projects, local, timer, saving,
                   runs, runCount, fresh>>
    /\ lastLoad' = "none"

\* the list after a 2xx response that takes the project out only when the
\* response reports the cloud file as deleted
deleteResolvedIfCleaned(prev, pipelineId, result) ==
    IF result.cloudinary_deleted THEN {p \in prev : p # pipelineId} ELSE prev

\* handleDeletePipeline after a 2xx response: prev.filter(p => p.id !== pipelineId)
deleteResolved(prev, pipelineId, result) == {p \in prev : p # pipelineId}

\* the backend has deleted the record; the cleanup of the cloud file is reported
\* in the response
DeleteOk ==
    /\ \E pipelineId \in deleting \ deleted, cloudinary_deleted \in BOOLEAN :
          /\ deleted' = deleted \cup {pipelineId}
          /\ deleting' = deleting \ {pipelineId}
          /\ savedPipelines' = deleteResolved(savedPipelines, pipelineId,
                                              [cloudinary_deleted |-> cloudinary_deleted])
          /\ lastOp' = IF cloudinary_deleted THEN "deleteCleaned" ELSE "deleteUncleaned"
    /\ UNCHANGED <<store, localStorage, now, cleanup, viewMode, appPc, loading, uploads,
                   nextSession, projects, local, timer, saving, runs, runCount, fresh>>
    /\ lastLoad' = "none"

\* the response is not ok, or the fetch rejects
DeleteFails ==
    /\ \E pipelineId \in deleting : deleting' = deleting \ {pipelineId}
    /\ lastOp' = "deleteFailed"
    /\ UNCHANGED <<deleted, savedPipelines, store, localStorage, now, cleanup, viewMode,
                   appPc, loading, uploads, nextSession, projects, local, timer, saving,
                   runs, runCount, fresh>>
    /\ lastLoad' = "none"

(***************************************************************************)
(* Step 5: training                                                        *)
(***************************************************************************)
\* the response of POST /train
TrainResponse == [status |-> "success", accuracy |-> 90]

RemoveAt(s, i) == [j \in 1..(Len(s) - 1) |-> IF j < i THEN s[j] ELSE s[j + 1]]

\* ResultsStep: the Retrain button, rendered once the component holds results
retrain ==
    /\ Interactive /\ local.step = 5 /\ Truthy(local.results)
    /\ Commit(settle(runTraining(World), Mounted, Mounted))
    /\ lastOp' = IF runTraining(World).runCount > runCount THEN "retrain" ELSE "other"
    /\ UNCHANGED <<deleted, now, viewMode, appPc, loading, uploads, nextSession,
                   projects, saving>>

phase(currentPhase, progress) == [currentPhase |-> currentPhase, progress |-> progress]

\* trainRequest that lists every scaler that is set, 'none' included
trainRequestListsNone(run) ==
    [session_id |-> run.sessionId,
     model_type |-> Val(run.modelConfig).modelType,
     split_ratio |-> IF Truthy(run.splitConfig) /\ Val(run.splitConfig).splitRatio # 0
                     THEN Val(run.splitConfig).splitRatio ELSE DefaultSplitRatio,
     target_column |-> Val(run.modelConfig).targetColumn,
     feature_columns |-> Val(run.modelConfig).featureColumns,
     preprocessing_steps |-> IF needsPreprocessingIgnoresNone(run.preprocessingConfig)
                             THEN <<Val(run.preprocessingConfig).scaler>> ELSE <<>>]

\* runTraining: the body of POST /train
trainRequest(run) ==
    [session_id |-> run.sessionId,
     model_type |-> Val(run.modelConfig).modelType,
     split_ratio |-> IF Truthy(run.splitConfig) /\ Val(run.splitConfig).splitRatio # 0
                     THEN Val(run.splitConfig).splitRatio ELSE DefaultSplitRatio,
     target_column |-> Val(run.modelConfig).targetColumn,
     feature_columns |-> Val(run.modelConfig).featureColumns,
     preprocessing_steps |-> IF needsPreprocessing(run.preprocessingConfig)
                             THEN <<Val(run.preprocessingConfig).scaler>> ELSE <<>>]

\* runTraining: the statements after a phase's timeout
runAfterTimeout(w, i) ==
    LET run == w.runs[i] IN
    CASE run.pc = "loading" ->
           IF needsPreprocessing(run.preprocessingConfig)
           THEN [setAnimationState(w, phase("preprocessing", 30))
                    EXCEPT !.runs[i].pc = "preprocess",
                           !.runs[i].calls = Append(@, "preprocessData")]
           ELSE [setAnimationState(w, phase("splitting", 50))
                    EXCEPT !.runs[i].pc = "splitting"]
      [] run.pc = "preprocessWait" ->
           [setAnimationState(w, phase("splitting", 50)) EXCEPT !.runs[i].pc = "splitting"]
      [] run.pc = "splitting" ->
           [setAnimationState(w, phase("training", 70))
               EXCEPT !.runs[i].pc = "train", !.runs[i].calls = Append(@, "trainModel"),
                      !.runs[i].request = Some(trainRequest(run))]
      [] run.pc = "evaluating" ->
           [setAnimationState(w, phase("complete", 100)) EXCEPT !.runs[i].pc = "complete"]
      [] run.pc = "complete" ->
           \* setResults(response); setStoreResults(response); finally
           LET w1 == IF run.attached
                     THEN [w EXCEPT !.local.results = run.response,
                                    !.local.isTraining = FALSE]
                     ELSE w
           IN [setIsRunning(setResults(w1, run.response), FALSE)
                  EXCEPT !.runs = RemoveAt(@, i)]

\* runTraining: the statements after an awaited call has resolved
runAfterResponse(w, i) ==
    IF w.runs[i].pc = "preprocess"
    THEN [w EXCEPT !.runs[i].pc = "preprocessWait",
                   !.runs[i].calls = Append(@, "preprocessData resolved")]
    ELSE [setAnimationState(w, phase("evaluating", 90))
             EXCEPT !.runs[i].pc = "evaluating", !.runs[i].response = Some(TrainResponse)]

\* catch and finally of a runTraining that also drops the stored result
runFailedClearsResults(w, i) ==
    LET w1 == IF w.runs[i].attached
              THEN [w EXCEPT !.local.error = TRUE, !.local.isTraining = FALSE]
              ELSE w
    IN [setIsRunning(setResults(setAnimationState(w1, phase("idle", 0)), Null), FALSE)
           EXCEPT !.runs = RemoveAt(@, i)]

\* runTraining: catch and finally
runFailed(w, i) ==
    LET w1 == IF w.runs[i].attached
              THEN [w EXCEPT !.local.error = TRUE, !.local.isTraining = FALSE]
              ELSE w
    IN [setIsRunning(setAnimationState(w1, phase("idle", 0)), FALSE)
           EXCEPT !.runs = RemoveAt(@, i)]

RunTimeout ==
    /\ \E i \in DOMAIN runs :
          /\ runs[i].pc \in {"loading", "preprocessWait", "splitting", "evaluating",
                             "complete"}
          /\ Commit(settle(runAfterTimeout(World, i), Mounted, Mounted))
          /\ lastOp' = IF runs[i].pc = "complete" THEN "setResults" ELSE "other"
    /\ UNCHANGED <<deleted, now, viewMode, appPc, loading, uploads, nextSession,
                   projects, saving>>

RunResponseOk ==
    /\ \E i \in DOMAIN runs :
          /\ runs[i].pc \in {"preprocess", "train"}
          /\ Commit(settle(runAfterResponse(World, i), Mounted, Mounted))
    /\ lastOp' = "other"
    /\ UNCHANGED <<deleted, now, viewMode, appPc, loading, uploads, nextSession,
                   projects, saving>>

RunResponseFails ==
    /\ \E i \in DOMAIN runs :
          /\ runs[i].pc \in {"preprocess", "train"}
          /\ Commit(settle(runFailed(World, i), Mounted, Mounted))
    /\ lastOp' = "runFailed"
    /\ UNCHANGED <<deleted, now, viewMode, appPc, loading, uploads, nextSession,
                   projects, saving>>

(***************************************************************************)
(* Specifications                                                          *)
(***************************************************************************)
\* one pass through the wizard: start, uploads, the forms, navigation
NextForms ==
    \/ AppStart \/ handleGetStarted
    \/ handleNext \/ handlePrevious \/ handleStepClick
    \/ handleFileUpload \/ UploadOk \/ UploadFails
    \/ selectScaler \/ selectSplitRatio \/ selectModel \/ selectTarget
    \/ handleFeatureToggle

\* one page session of the wizard: the forms and the resets
NextSession ==
    \/ NextForms
    \/ handleNewPipeline \/ handleReset

\* the wizard with page reloads, the auto-save timer, the landing page,
\* authentication, the clock and the session cleanup requests
Next ==
    \/ NextSession
    \/ Reload \/ AutoSave \/ handleBackToHome
    \/ Login \/ logout
    \/ Tick \/ CleanupSettles

Spec == Init /\ [][Next]_vars

\* a page session of a user who logs in, with the project records of the backend
NextProjects ==
    \/ NextForms
    \/ Login
    \/ saveProject \/ SaveProjectOk \/ SaveProjectFails
    \/ loadSavedPipelines
    \/ handleLoadPipeline \/ LoadProjectOk \/ LoadProjectFails

SpecProjects == Init /\ [][NextProjects]_vars

\* the wizard with page reloads and the training runs of the results step
NextTraining ==
    \/ NextSession
    \/ Reload
    \/ retrain \/ RunTimeout \/ RunResponseOk \/ RunResponseFails

SpecTraining == Init /\ [][NextTraining]_vars

\* a user who logs in, saves a project and deletes it from the sidebar
NextSidebar ==
    \/ AppStart \/ Login
    \/ handleGetStarted \/ handleNext \/ handlePrevious
    \/ handleFileUpload \/ UploadOk \/ UploadFails
    \/ selectScaler
    \/ saveProject \/ SaveProjectOk \/ SaveProjectFails
    \/ loadSavedPipelines
    \/ handleDeletePipeline \/ DeleteOk \/ DeleteFails

SpecSidebar == Init /\ [][NextSidebar]_vars

(***************************************************************************)
(* Properties                                                              *)
(***************************************************************************)
\* step k is complete: its configuration field is present
isComplete(state, k) ==
    CASE k = 1 -> Truthy(state.datasetInfo)
      [] k = 2 -> Truthy(state.preprocessingConfig)
      [] k = 3 -> Truthy(state.splitConfig)
      [] k = 4 -> Truthy(state.modelConfig)
      [] k = 5 -> Truthy(state.results)

Downstream(state) ==
    \/ Truthy(state.preprocessingConfig) \/ Truthy(state.splitConfig)
    \/ Truthy(state.modelConfig) \/ Truthy(state.results)

\* C1: in every reachable state canProceedToStep(n) is true only if every
\* earlier step k < n is complete (datasetInfo, preprocessingConfig,
\* splitConfig, modelConfig present for k = 1, 2, 3, 4).
C1_GateImpliesEarlierComplete ==
    \A n \in 1..StepsLength :
        canProceedToStep(store, n) => \A k \in 1..(n - 1) : isComplete(store, k)

\* a state in which the gate of the last step is open
C1_Witness == canProceedToStep(store, StepsLength) /\ store.currentStep = StepsLength

\* C2 as the spec states it: whenever setDatasetInfo has just installed a
\* descriptor, preprocessingConfig, splitConfig, modelConfig and results are
\* absent, so steps 3, 4 and 5 are not enterable.
C2_DatasetReplacementClears ==
    lastOp = "setDatasetInfo" =>
        /\ ~Downstream(store)
        /\ \A n \in 3..StepsLength : ~canProceedToStep(store, n)

\* the nine fields of the snapshot
snapshotFields(state) ==
    <<state.sessionId, state.currentStep, state.datasetInfo, state.preprocessingConfig,
      state.splitConfig, state.modelConfig, state.results, state.fileUrl, state.fileName>>

\* saveToStorage in the given state, then loadFromStorage into a store in its
\* initial state
roundTrip(state) ==
    loadFromStorage([saveToStorage([World EXCEPT !.store = state])
                        EXCEPT !.store = initialState]).store

\* C3, amended: for every reachable pipeline state that holds a dataset AND at
\* least one of preprocessingConfig, splitConfig, modelConfig, results, saving
\* and immediately loading into an initial store restores the nine snapshot
\* fields as written; every other state (no dataset, or a dataset alone)
\* reads back as absent: the store stays in its initial state.
C3_RoundTripWithProgress ==
    IF Truthy(store.datasetInfo) /\ Downstream(store)
    THEN snapshotFields(roundTrip(store)) = snapshotFields(store)
    ELSE roundTrip(store) = initialState

\* a page load has restored a snapshot that carries training results
C3_Witness ==
    /\ lastOp = "reload" /\ lastLoad = "loaded"
    /\ Truthy(store.results)
    /\ snapshotFields(roundTrip(store)) = snapshotFields(store)

\* C3 as the spec states it: every state that holds a dataset OR any
\* downstream configuration is restored by the round trip, only the pure
\* step-1 state reads back as absent.
C3_RoundTripAnyContent ==
    IF Truthy(store.datasetInfo) \/ Downstream(store)
    THEN snapshotFields(roundTrip(store)) = snapshotFields(store)
    ELSE roundTrip(store) = initialState

\* C4: a stored snapshot whose timestamp is more than 24 hours older than the
\* current time is not loaded by loadFromStorage (the store is left unchanged)
\* and the read empties the snapshot slot.
C4_ExpiredSnapshotNeverLoaded ==
    /\ (localStorage.pipeline # Null /\ now - Val(localStorage.pipeline).timestamp > 24) =>
          LET w == loadFromStorage(World)
          IN w.store = store /\ w.ls.pipeline = Null /\ w.load = "expired"
    /\ (lastOp = "reload" /\ lastLoad = "expired") =>
          store = initialState /\ localStorage.pipeline = Null

\* a page load has just found an expired snapshot
C4_Witness == lastLoad = "expired" /\ lastOp = "reload" /\ now > 24

\* C5: after startNewPipeline the snapshot slot stays empty until the next
\* write, so no later loadFromStorage restores a snapshot that existed before
\* the call.
C5_NoStaleSnapshotAfterStartNew ==
    /\ ~fresh => localStorage.pipeline = Null
    /\ lastLoad # "loadedStale"

\* startNewPipeline has run over a stored snapshot's slot and the mount of
\* StepBasedPipeline has called loadFromStorage
C5_Witness ==
    /\ lastOp = "startNewPipeline" /\ ~fresh /\ lastLoad = "empty"
    /\ \E sid \in SessionIds : cleanup[sid] # "none"

\* C6: right after resetPipeline or startNewPipeline the store is in its
\* initial state (no sessionId, no configuration), whether the cleanup request
\* is pending, has succeeded or has failed; and a session whose cleanup was
\* requested is no longer the store's session.
C6_ResetAlwaysClears ==
    /\ lastOp \in {"resetPipeline", "startNewPipeline"} =>
          /\ store.sessionId = Null /\ ~anyConfig(store) /\ store.results = Null
          /\ store = initialState
    /\ \A sid \in SessionIds : cleanup[sid] # "none" => store.sessionId # Some(sid)

\* a reset whose cleanup request has failed
C6_Witness ==
    /\ lastOp = "resetPipeline"
    /\ \E sid \in SessionIds : cleanup[sid] = "failed"

\* C7: after a successful loadProject currentStep is 4, whatever the project
\* holds and wherever the wizard was.
C7_LoadProjectStepFour ==
    lastOp = "loadProject" => store.currentStep = 4

\* a loaded project that never got past the upload step
C7_Witness ==
    /\ lastOp = "loadProject" /\ Len(projects) > 0
    /\ ~Truthy(store.preprocessingConfig)

\* C8 as the spec states it: a present modelConfig names a target that is a
\* column of the current dataset and features that are numeric columns of it
\* other than the target.
C8_ModelConfigFitsDataset ==
    Truthy(store.modelConfig) =>
        /\ Truthy(store.datasetInfo)
        /\ Val(store.modelConfig).targetColumn \in SeqToSet(Val(store.datasetInfo).columns)
        /\ SeqToSet(Val(store.modelConfig).featureColumns)
              \subseteq SeqToSet(Val(store.datasetInfo).numericColumns)
                        \ {Val(store.modelConfig).targetColumn}

\* C9 as the spec states it: a present configuration has all strictly earlier
\* configurations present.
C9_NoHoles ==
    \A k \in 2..StepsLength :
        isComplete(store, k) => \A j \in 1..(k - 1) : isComplete(store, j)

\* C10: step 5 is enterable exactly when step 4 is enterable and modelConfig
\* has a model kind, a target column and at least one feature column.
C10_StepFiveIffValidModel ==
    canProceedToStep(store, 5) <=>
        /\ canProceedToStep(store, 4)
        /\ Truthy(store.modelConfig)
        /\ Val(store.modelConfig).modelType # ""
        /\ Val(store.modelConfig).targetColumn # ""
        /\ Len(Val(store.modelConfig).featureColumns) >= 1

\* step 4 is enterable, features were deselected after a valid modelConfig
\* had been stored, and step 5 is enterable
C10_Witness ==
    /\ canProceedToStep(store, 5)
    /\ local.step = 4 /\ local.featureColumns = <<>> /\ local.targetColumn # ""

(***************************************************************************)
(* Training runs                                                           *)
(***************************************************************************)
\* the position of a phase in idle, loading, preprocessing, splitting,
\* training, evaluating, complete
phaseRank(currentPhase) ==
    CASE currentPhase = "idle" -> 0
      [] currentPhase = "uploading" -> 1
      [] currentPhase = "preprocessing" -> 2
      [] currentPhase = "splitting" -> 3
      [] currentPhase = "training" -> 4
      [] currentPhase = "evaluating" -> 5
      [] currentPhase = "complete" -> 6

\* one step along the phase sequence: the same phase, the next one, or
\* loading -> splitting
phaseForward(from, to) ==
    \/ phaseRank(to) = phaseRank(from)
    \/ phaseRank(to) = phaseRank(from) + 1
    \/ from = "uploading" /\ to = "splitting"

\* C11 as the spec states it: while a training run is in flight the phase only
\* moves forward along the sequence, never skipping splitting, training or
\* evaluating, and the progress percentage never decreases.
C11_PhaseOnlyForward ==
    [][(runs # <<>> /\ runs' # <<>>) =>
          /\ phaseForward(store.animationState.currentPhase,
                          store'.animationState.currentPhase)
          /\ store'.animationState.progress >= store.animationState.progress]_vars

\* C12: a run issues the preprocess call (and enters the preprocessing phase)
\* exactly when the preprocessingConfig it runs with has a scaler other than
\* 'none'; a run without such a scaler goes from loading to splitting.
C12_PreprocessingIffScaler ==
    /\ \A i \in DOMAIN runs :
          LET run == runs[i]
              scaled == /\ Truthy(run.preprocessingConfig)
                        /\ Val(run.preprocessingConfig).scaler \notin {"", "none"}
          IN /\ run.pc = "loading" => run.calls = <<>>
             /\ run.pc \in {"preprocess", "preprocessWait"} => scaled
             /\ run.pc # "loading" => ("preprocessData" \in SeqToSet(run.calls) <=> scaled)
    /\ store.animationState.currentPhase = "preprocessing" =>
          \E i \in DOMAIN runs :
              /\ runs[i].pc \in {"preprocess", "preprocessWait"}
              /\ Val(runs[i].preprocessingConfig).scaler = "StandardScaler"

\* a run with the scaler 'none' has gone from loading to splitting without
\* a preprocess call
C12_Witness ==
    /\ Len(runs) = 1 /\ runs[1].pc = "splitting" /\ runs[1].calls = <<>>
    /\ Val(runs[1].preprocessingConfig).scaler = "none"
    /\ store.animationState.currentPhase = "splitting"

\* C13: when the preprocess or the train call of a run fails, the phase is
\* reset to idle, the error is shown by the component that started the run,
\* and the result in the store and in the snapshot is the one that was there
\* before the failure.
C13_FailedRunKeepsResult ==
    [][lastOp' = "runFailed" =>
          /\ store'.animationState = [currentPhase |-> "idle", progress |-> 0]
          /\ store'.results = store.results
          /\ localStorage'.pipeline = localStorage.pipeline
          /\ local'.results = local.results
          /\ (\A i \in DOMAIN runs : runs[i].attached) => local'.error]_vars

\* a retrain has failed and the result of the earlier run is still stored
C13_Witness ==
    /\ lastOp = "runFailed" /\ Truthy(store.results) /\ local.error
    /\ store.animationState.currentPhase = "idle" /\ runCount = MaxRuns

\* C14, amended: a retrain restarts the phase machine at its first phase,
\* loading, with the progress of every run's first phase, 10%, and marks the
\* pipeline as running; it does not continue from complete / 100%.
C14_RetrainRestartsAtLoading ==
    lastOp = "retrain" =>
        /\ store.animationState = [currentPhase |-> "uploading", progress |-> 10]
        /\ store.isRunning /\ runs # <<>> /\ runs[Len(runs)].pc = "loading"

\* a retrain has just started over the result of a completed run
C14_Witness ==
    /\ lastOp = "retrain" /\ Truthy(store.results) /\ runCount = 2
    /\ store.animationState.currentPhase = "uploading"

\* C14 as the spec states it: the first phase of a retrain is loading with
\* progress 0%.
C14_RetrainRestartsAtZero ==
    lastOp = "retrain" =>
        /\ store.animationState.currentPhase = "uploading"
        /\ store.animationState.progress = 0

\* C15 as the spec states it: when a retrain has just started, the result the
\* results step shows is still the previous one.
C15_PreviousResultVisible ==
    lastOp = "retrain" => Truthy(local.results)

\* the four upstream configurations
configuration(state) ==
    <<state.datasetInfo, state.preprocessingConfig, state.splitConfig, state.modelConfig>>

\* C16 as the spec states it: a step that changes an upstream configuration
\* while a result is stored leaves no result stored.
C16_ReconfigurationClearsResult ==
    [][(Truthy(store.results) /\ configuration(store') # configuration(store)) =>
          ~Truthy(store'.results)]_vars

(***************************************************************************)
(* Projects, the split ratio, the auto-save timer                          *)
(***************************************************************************)
\* C17: without an auth token, or with a name that is empty after trimming,
\* the save handler returns before a request is issued; without an auth token
\* loadProject returns before a request is issued.  No store statement
\* precedes the fetch in either function.
C17_GuardsBeforeNetwork ==
    /\ \A name \in ProjectNames :
          (~Truthy(localStorage.auth_token) \/ name \in {"", " "}) =>
              handleSave(World, name) = Null
    /\ \A projectId \in 1..MaxProjects :
          ~Truthy(localStorage.auth_token) => loadProjectFetch(World, projectId) = Null
    /\ saving # Null => Truthy(localStorage.auth_token)
    /\ loading # Null => Truthy(localStorage.auth_token)

\* a pipeline with progress and a snapshot, shown to a user who has logged out
C17_Witness ==
    /\ Mounted /\ ~Truthy(localStorage.auth_token) /\ localStorage.viewMode = Null
    /\ getCompletedSteps(store) > 0 /\ localStorage.pipeline # Null
    /\ handleSave(World, "p") = Null /\ loadProjectFetch(World, 1) = Null

\* C18: a delete response that is ok takes the project out of the sidebar's
\* list, whether it reports the cloud file as deleted or not; a delete that
\* fails leaves the list as it was.
C18_DeleteUpdatesList ==
    [][/\ lastOp' \in {"deleteCleaned", "deleteUncleaned"} =>
             \E pipelineId \in deleting :
                 /\ pipelineId \in deleted' \ deleted
                 /\ pipelineId \notin savedPipelines'
                 /\ savedPipelines' = savedPipelines \ {pipelineId}
       /\ lastOp' = "deleteFailed" => savedPipelines' = savedPipelines]_vars

\* the record is deleted, the cloud file is not, and the list no longer shows
\* the project
C18_Witness ==
    /\ lastOp = "deleteUncleaned" /\ deleted = {1} /\ savedPipelines = {}
    /\ Len(projects) = 1

\* ratios handed to setSplitConfig, in percent: in range and out of range
RatioInputs == {0, 30, 100, 150}

C20_NoTimerWriteAfterReset ==
    /\ [](~anyConfig(store) => ~timer)
    /\ [][/\ lastOp' \in {"resetPipeline", "startNewPipeline"} =>
                ~timer' /\ localStorage'.pipeline = Null
          /\ lastOp' = "autoSave" => anyConfig(store) /\ store' = store]_vars

\* a reset of a session whose cleanup request is pending has left no timeout
\* and an empty slot
C20_Witness ==
    /\ lastOp = "resetPipeline" /\ ~timer /\ localStorage.pipeline = Null
    /\ \E sid \in SessionIds : cleanup[sid] = "pending"

(***************************************************************************)
(* Resets, the landing page, sessions                                      *)
(***************************************************************************)
\* C21: from any state resetPipeline() and startNewPipeline() have the same
\* outcome: a cleanup request for the live session and for no other (none when
\* there is no session), a store equal to initialState and an empty snapshot
\* slot.
C21_ResetsAgree ==
    LET reset == resetPipeline(World)
        startNew == startNewPipeline(World)
        requested(w) == {sid \in SessionIds : w.cleanup[sid] # cleanup[sid]}
        live == IF Truthy(store.sessionId) THEN {Val(store.sessionId)} ELSE {}
    IN /\ reset.store = startNew.store /\ reset.store = initialState
       /\ reset.ls = startNew.ls /\ reset.ls.pipeline = Null
       /\ reset.cleanup = startNew.cleanup
       /\ requested(reset) = live /\ requested(startNew) = live
       /\ \A sid \in live : reset.cleanup[sid] = "pending"

\* a running pipeline with a session, a result and a snapshot, from which both
\* resets clear everything
C21_Witness ==
    /\ Truthy(store.sessionId) /\ Truthy(store.results) /\ store.isRunning
    /\ store.animationState.currentPhase # "idle" /\ localStorage.pipeline # Null
    /\ cleanup[Val(store.sessionId)] = "none"
    /\ startNewPipeline(World).cleanup[Val(store.sessionId)] = "pending"
    /\ resetPipeline(World).store = initialState

\* C22: in every reachable state the current step is enterable:
\* canProceedToStep(currentStep) holds.
C22_CurrentStepEnterable == canProceedToStep(store, store.currentStep)

\* C23: when the landing page shows work in progress (hasProgress), its
\* 'Resume' / 'Continue Building' button enters the pipeline view with the
\* configuration, the results, the session and the current step unchanged.
C23_ResumeKeepsWork ==
    [][(viewMode = "landing" /\ hasProgress /\ lastOp' = "startNewPipeline") =>
          /\ viewMode' = "pipeline"
          /\ configuration(store') = configuration(store)
          /\ store'.results = store.results
          /\ store'.sessionId = store.sessionId
          /\ store'.currentStep = store.currentStep]_vars

(***************************************************************************)
(* Training runs: start, order of calls, termination                       *)
(***************************************************************************)
\* C24: when ResultsStep mounts while the store already holds results, no
\* training run is started (no train request is issued).
C24_NoAutoStartWithResults ==
    [][(local.step # 5 /\ local'.step = 5 /\ Truthy(store.results)) =>
          runCount' = runCount /\ Len(runs') <= Len(runs)]_vars

\* the positions of a call in the calls a run has issued
callsAt(run, call) == {k \in 1..Len(run.calls) : run.calls[k] = call}

\* C25: in every training run the preprocess call is issued only for a scaler
\* other than 'none' and has resolved before the train call is issued, at most
\* one train call is issued, and the train request lists the scaler in
\* preprocessing_steps exactly when the preprocess call was made.
C25_CallsOrdered ==
    \A i \in DOMAIN runs :
        LET run == runs[i]
            preprocessed == callsAt(run, "preprocessData")
            resolved == callsAt(run, "preprocessData resolved")
            trained == callsAt(run, "trainModel")
        IN /\ Cardinality(trained) <= 1 /\ Cardinality(preprocessed) <= 1
           /\ preprocessed # {} =>
                 /\ Truthy(run.preprocessingConfig)
                 /\ Val(run.preprocessingConfig).scaler \notin {"", "none"}
           /\ \A t \in trained :
                 /\ \A p \in preprocessed : \E r \in resolved : p < r /\ r < t
                 /\ run.request # Null
                 /\ Val(run.request).preprocessing_steps =
                       (IF preprocessed # {}
                        THEN <<Val(run.preprocessingConfig).scaler>> ELSE <<>>)
           /\ trained = {} => run.request = Null

\* a run that has issued its train call after a resolved preprocess call
C25_Witness ==
    \E i \in DOMAIN runs :
        /\ runs[i].calls = <<"preprocessData", "preprocessData resolved", "trainModel">>
        /\ runs[i].pc = "train"
        /\ Val(runs[i].request).preprocessing_steps = <<"StandardScaler">>

\* C26: when a training run settles, isRunning is false and the phase is
\* 'complete' with progress 100 after success, 'idle' with progress 0 after
\* failure; isRunning is never true with no run in flight.
C26_RunSettlesNotRunning ==
    /\ [](store.isRunning => runs # <<>>)
    /\ [][/\ lastOp' = "setResults" =>
                ~store'.isRunning /\ store'.animationState = phase("complete", 100)
          /\ lastOp' = "runFailed" =>
                ~store'.isRunning /\ store'.animationState = phase("idle", 0)]_vars

\* C27: at most one training run is in flight at any time, and runTraining is
\* never started while another run has not settled.
C27_OneRunInFlight ==
    /\ [](Len(runs) <= 1)
    /\ [][runCount' > runCount => runs = <<>>]_vars

\* C28: an upload, project load or training run that was in flight when
\* resetPipeline() or startNewPipeline() ran does not repopulate the pipeline
\* when it completes: with no user action since the reset, the configuration,
\* the session id, the results and the snapshot stay empty.
C28_LateResponseAfterReset ==
    [][(/\ lastOp \in {"resetPipeline", "startNewPipeline"}
        /\ lastOp' \in {"setDatasetInfo", "setResults", "loadProject"}) =>
          /\ ~anyConfig(store') /\ store'.sessionId = Null /\ store'.results = Null
          /\ localStorage'.pipeline = Null]_vars

holdsNoPipeline(slot) ==
    slot = Null \/ \A key \in NullableKeys : ~Truthy(Field(Val(slot), key))

\* C30: a user who logs in right after a logout, with nothing done in between,
\* finds no pipeline of the logged-out user: the store holds no configuration,
\* session or results, and the snapshot slot holds none either.
C30_NoPipelineAcrossLogout ==
    [][(lastOp = "logout" /\ lastOp' = "login") =>
          /\ ~anyConfig(store') /\ store'.sessionId = Null /\ store'.results = Null
          /\ holdsNoPipeline(localStorage'.pipeline)]_vars

====
